---- MODULE Spec2Model ----
(***************************************************************************)
(* tock-react-kit: the renderer registries with fallback resolution        *)
(* (settings/RendererSettings.tsx), the Card component and the UrlButton   *)
(* component, as state machines over the values the code reads and writes. *)
(*                                                                         *)
(* JavaScript values are encoded with a uniform shape per kind:            *)
(*   - an optional string is [defined |-> BOOLEAN, str |-> STRING];        *)
(*   - a renderer is an identity in 1..NumRenderers, NoRenderer for an     *)
(*     absent slot (undefined);                                            *)
(*   - a style (emotion Interpolation) is [tag, name, items];              *)
(*   - an object used with spread is a function from its keys.             *)
(***************************************************************************)
EXTENDS Integers, Sequences, FiniteSets, TLC

VARIABLES
    textRenderers,   \* useTockSettings().renderers.textRenderers : slot -> renderer
    imageRenderers,  \* useTockSettings().renderers.imageRenderers : slot -> renderer
    displayName,     \* renderer -> its displayName field (optional string)
    call,            \* the last resolution: hook, slot name, outcome
    theme,           \* the ambient emotion theme (useTheme())
    card,            \* the mounted Card: props, ref and, once rendered, its element tree
    anchor           \* the mounted UrlButton: props and, once rendered, its <a> element

vars == <<textRenderers, imageRenderers, displayName, call, theme, card, anchor>>

----------------------------------------------------------------------------
(* Bounds *)

\* host renderer components that exist
NumRenderers == 4
\* slots the host populates, over both registries
MaxPopulated == 2
\* buttons of a card
MaxButtons == 2

----------------------------------------------------------------------------
(* Optional strings and renderers *)

Str(s) == [defined |-> TRUE, str |-> s]
UndefinedStr == [defined |-> FALSE, str |-> ""]

\* JavaScript truthiness of an optional string: undefined and '' are falsy
TruthyStr(v) == v.defined /\ v.str # ""

\* the value of an absent registry slot
NoRenderer == 0

Renderers == 1..NumRenderers

\* keyof TextRenderers
TextSlots == {"default", "html", "htmlPhrase", "userContent"}

\* keyof ImageRenderers
ImageSlots == {"default", "standalone", "card", "buttonIcon"}

\* Function.prototype.name of the host's renderer components, as line 99 reads
\* it: a named function or class, an anonymous function (''), or a component
\* object without a name property (undefined)
rendererName(r) ==
    CASE r % 4 = 1 -> Str("Fn" \o ToString(r))
      [] r % 4 = 2 -> Str("")
      [] r % 4 = 3 -> Str("Fn" \o ToString(r))
      [] OTHER     -> UndefinedStr

\* displayName of the host's renderer components before any resolution, as
\* line 97 reads it: unset, set by the host, or set to ''
hostDisplayName(r) ==
    CASE r % 4 = 1 -> UndefinedStr
      [] r % 4 = 2 -> UndefinedStr
      [] r % 4 = 3 -> Str("Custom" \o ToString(r))
      [] OTHER     -> Str("")

----------------------------------------------------------------------------
(* settings/RendererSettings.tsx *)

\* the outcome of a call: the value returned, whether it threw, and the heap
\* it leaves (the registry object and the renderers' displayName fields)
Outcome(ret, threw, renderers, dn) ==
    [ret |-> ret, threw |-> threw, renderers |-> renderers, displayName |-> dn]

\* prettyName with the renderer's own name ignored: always the slot name
prettyName_SlotOnly(type, renderer, name) ==
    type \o "(" \o name \o ")"

\* line 99: `${type}(${renderer.name?.length ? renderer.name : name})`
prettyName(type, renderer, name) ==
    type \o "(" \o
      (IF TruthyStr(rendererName(renderer)) THEN rendererName(renderer).str ELSE name)
    \o ")"

\* getRenderer without the `renderer &&` guard: reading displayName of an
\* absent slot's value throws a TypeError
getRenderer_NoGuard(type, renderers, name, dn) ==
    LET renderer == renderers[name] IN
    IF renderer = NoRenderer
    THEN Outcome(NoRenderer, TRUE, renderers, dn)
    ELSE IF ~TruthyStr(dn[renderer])
    THEN Outcome(renderer, FALSE, renderers,
                 [dn EXCEPT ![renderer] =
                    Str(type \o "(" \o
                        (IF TruthyStr(rendererName(renderer))
                         THEN rendererName(renderer).str ELSE name) \o ")")])
    ELSE Outcome(renderer, FALSE, renderers, dn)

\* getRenderer without the `!renderer.displayName` test: every read relabels
getRenderer_Relabel(type, renderers, name, dn) ==
    LET renderer == renderers[name] IN
    IF renderer # NoRenderer
    THEN Outcome(renderer, FALSE, renderers,
                 [dn EXCEPT ![renderer] =
                    Str(type \o "(" \o
                        (IF TruthyStr(rendererName(renderer))
                         THEN rendererName(renderer).str ELSE name) \o ")")])
    ELSE Outcome(renderer, FALSE, renderers, dn)

\* lines 91-102
getRenderer(type, renderers, name, dn) ==
    LET renderer == renderers[name] IN
    IF renderer # NoRenderer /\ ~TruthyStr(dn[renderer])
    THEN Outcome(renderer, FALSE, renderers,
                 [dn EXCEPT ![renderer] = Str(prettyName(type, renderer, name))])
    ELSE Outcome(renderer, FALSE, renderers, dn)

\* getRendererOrDefault with the operands of ?? exchanged
getRendererOrDefault_DefaultFirst(type, renderers, name, dn) ==
    LET first == getRenderer(type, renderers, "default", dn) IN
    IF first.threw \/ first.ret # NoRenderer
    THEN first
    ELSE getRenderer(type, first.renderers, name, first.displayName)

\* getRendererOrDefault without the fallback
getRendererOrDefault_NoFallback(type, renderers, name, dn) ==
    getRenderer(type, renderers, name, dn)

\* getRendererOrDefault that stores the fallback in the requested slot
getRendererOrDefault_Memoize(type, renderers, name, dn) ==
    LET first == getRenderer(type, renderers, name, dn) IN
    IF first.threw \/ first.ret # NoRenderer
    THEN first
    ELSE LET second == getRenderer(type, first.renderers, "default",
                                   first.displayName)
         IN Outcome(second.ret, second.threw,
                    [second.renderers EXCEPT ![name] = second.ret],
                    second.displayName)

\* lines 81-89: getRenderer(name) ?? getRenderer('default')
getRendererOrDefault(type, renderers, name, dn) ==
    LET first == getRenderer(type, renderers, name, dn) IN
    IF first.threw \/ first.ret # NoRenderer
    THEN first
    ELSE getRenderer(type, first.renderers, "default", first.displayName)

NoCall == [hook |-> "none", name |-> "default", ret |-> NoRenderer, threw |-> FALSE]

\* lines 51-54
useTextRenderer(name) ==
    LET out == getRendererOrDefault("TextRenderer", textRenderers, name, displayName) IN
    /\ textRenderers' = out.renderers
    /\ displayName' = out.displayName
    /\ call' = [hook |-> "useTextRenderer", name |-> name,
                ret |-> out.ret, threw |-> out.threw]
    /\ UNCHANGED <<imageRenderers, theme, card, anchor>>

\* lines 76-79
useImageRenderer(name) ==
    LET out == getRendererOrDefault("ImageRenderer", imageRenderers, name, displayName) IN
    /\ imageRenderers' = out.renderers
    /\ displayName' = out.displayName
    /\ call' = [hook |-> "useImageRenderer", name |-> name,
                ret |-> out.ret, threw |-> out.threw]
    /\ UNCHANGED <<textRenderers, theme, card, anchor>>

----------------------------------------------------------------------------
(* Styles and the theme *)

\* an emotion Interpolation: a css block, a function of the theme, an array
\* of interpolations, or one of the falsy values undefined, null, false, ''
Css(n) == [tag |-> "css", name |-> n, items |-> <<>>]
StyleFn(n) == [tag |-> "function", name |-> n, items |-> <<>>]
Arr(items) == [tag |-> "array", name |-> "", items |-> items]
UndefinedStyle == [tag |-> "undefined", name |-> "", items |-> <<>>]
NullStyle == [tag |-> "null", name |-> "", items |-> <<>>]
FalseStyle == [tag |-> "false", name |-> "", items |-> <<>>]
EmptyStringStyle == [tag |-> "string", name |-> "", items |-> <<>>]

\* JavaScript truthiness of a style value (arrays, even empty, are truthy)
Truthy(v) ==
    ~(\/ v.tag \in {"undefined", "null", "false"}
      \/ (v.tag = "string" /\ v.name = ""))

\* the theme's overrides object and its buttons and card sub-objects, each of
\* which may be missing (present = FALSE)
Overrides(present, buttons, quickReply, cardOverrides) ==
    [present |-> present, buttons |-> buttons, quickReply |-> quickReply,
     card |-> cardOverrides]

ButtonOverrides(present, urlButton, postbackButton) ==
    [present |-> present, urlButton |-> urlButton, postbackButton |-> postbackButton]

CardOverrides(present, cardButton, cardImage) ==
    [present |-> present, cardButton |-> cardButton, cardImage |-> cardImage]

NoButtonOverrides == ButtonOverrides(FALSE, UndefinedStyle, UndefinedStyle)
NoCardOverrides == CardOverrides(FALSE, UndefinedStyle, UndefinedStyle)
NoOverrides == Overrides(FALSE, NoButtonOverrides, UndefinedStyle, NoCardOverrides)

AllButtonOverrides ==
    {NoButtonOverrides} \cup
    {ButtonOverrides(TRUE, u, p) :
        u \in {UndefinedStyle, EmptyStringStyle, Css("overrides.buttons.urlButton")},
        p \in {UndefinedStyle, Css("overrides.buttons.postbackButton")}}

AllCardOverrides ==
    {NoCardOverrides} \cup
    {CardOverrides(TRUE, b, i) :
        b \in {UndefinedStyle, Css("overrides.card.cardButton")},
        i \in {UndefinedStyle, Css("overrides.card.cardImage")}}

Themes ==
    {[overrides |-> NoOverrides]} \cup
    {[overrides |-> Overrides(TRUE, b, q, c)] :
        b \in AllButtonOverrides,
        q \in {UndefinedStyle, Css("overrides.quickReply")},
        c \in AllCardOverrides}

\* theme.overrides?.buttons?.urlButton
overridesButtonsUrlButton(t) ==
    IF t.overrides.present /\ t.overrides.buttons.present
    THEN t.overrides.buttons.urlButton ELSE UndefinedStyle

\* theme.overrides?.buttons?.postbackButton
overridesButtonsPostbackButton(t) ==
    IF t.overrides.present /\ t.overrides.buttons.present
    THEN t.overrides.buttons.postbackButton ELSE UndefinedStyle

\* theme.overrides?.quickReply
overridesQuickReply(t) ==
    IF t.overrides.present THEN t.overrides.quickReply ELSE UndefinedStyle

\* theme.overrides?.card?.cardButton
overridesCardCardButton(t) ==
    IF t.overrides.present /\ t.overrides.card.present
    THEN t.overrides.card.cardButton ELSE UndefinedStyle

\* theme.overrides?.card?.cardImage
overridesCardCardImage(t) ==
    IF t.overrides.present /\ t.overrides.card.present
    THEN t.overrides.card.cardImage ELSE UndefinedStyle

----------------------------------------------------------------------------
(* components/buttons/UrlButton/UrlButton.tsx *)

baseButtonStyle == Css("baseButtonStyle")
quickReplyStyle == Css("quickReplyStyle")

\* lines 14-17
defaultAnchorStyle == Css("defaultAnchorStyle")

\* anchorStyle with the custom style composed before the default anchor style
anchorStyle_CustomSecond(customStyle, t) ==
    << baseButtonStyle,
       IF Truthy(customStyle)
       THEN customStyle
       ELSE Arr(<< quickReplyStyle,
                   IF Truthy(overridesButtonsUrlButton(t))
                   THEN overridesButtonsUrlButton(t)
                   ELSE overridesQuickReply(t) >>),
       defaultAnchorStyle >>

\* lines 27-35
anchorStyle(customStyle, t) ==
    << baseButtonStyle,
       defaultAnchorStyle,
       IF Truthy(customStyle)
       THEN customStyle
       ELSE Arr(<< quickReplyStyle,
                   IF Truthy(overridesButtonsUrlButton(t))
                   THEN overridesButtonsUrlButton(t)
                   ELSE overridesQuickReply(t) >>) >>

\* lines 19-42: the <a> element; {imageUrl && <QuickReplyImage/>} renders an
\* image only for a truthy imageUrl, and target defaults to '_blank'
UrlButton(props, t) ==
    [type |-> "a",
     href |-> props.url,
     target |-> IF props.target.defined THEN props.target.str ELSE "_blank",
     css |-> anchorStyle(props.customStyle, t),
     children |->
        (IF TruthyStr(props.imageUrl)
         THEN << [type |-> "QuickReplyImage", value |-> props.imageUrl.str] >>
         ELSE << >>)
        \o << [type |-> "text", value |-> props.label] >>]

\* the props a host passes to UrlButton
UrlButtonProps ==
    [customStyle : {UndefinedStyle, NullStyle, FalseStyle, EmptyStringStyle,
                    Css("custom"), Arr(<< >>),
                    Arr(<< StyleFn("cardButtonBaseStyle"), UndefinedStyle >>)},
     imageUrl : {UndefinedStr, Str(""), Str("https://img")},
     label : {"Open"},
     target : {UndefinedStr, Str("_self")},
     url : {"https://tock"}]

NoElement == [type |-> "none"]

\* one render of a mounted UrlButton
UrlButtonRender ==
    /\ anchor.mounted /\ ~anchor.rendered
    /\ anchor' = [anchor EXCEPT !.rendered = TRUE,
                                !.element = UrlButton(anchor.props, theme)]
    /\ UNCHANGED <<textRenderers, imageRenderers, displayName, call, theme, card>>

----------------------------------------------------------------------------
(* The Card component (unnamed/part_001) *)

\* object spread {...a, ...b}: a later key wins
Spread(a, b) ==
    [k \in DOMAIN a \cup DOMAIN b |-> IF k \in DOMAIN b THEN b[k] ELSE a[k]]

\* the object with no own keys; also what spreading `false` contributes
EmptyObject == << >>

\* line 81
cardButtonBaseStyle == StyleFn("cardButtonBaseStyle")

\* Function.prototype.bind(null, button) of the onAction prop
Bind(button) == [bound |-> "onAction", arg |-> button]

\* line 116: isHidden = false
isHiddenOrDefault(isHidden) == IF isHidden = "undefined" THEN FALSE ELSE isHidden = "true"

\* lines 138-145: customStyle, then the button's own fields
urlButtonProps(button, t) ==
    Spread([customStyle |-> Arr(<< cardButtonBaseStyle,
                                   overridesButtonsUrlButton(t),
                                   overridesCardCardButton(t) >>)],
           button)

\* postBackButtonProps with tabIndex spread before the button's own fields
postBackButtonProps_TabIndexFirst(button, isHidden, t) ==
    Spread(
      Spread([customStyle |-> Arr(<< StyleFn("cardButtonBaseStyle"),
                                     overridesButtonsPostbackButton(t),
                                     overridesCardCardButton(t) >>),
              onClick |-> [bound |-> "onAction", arg |-> button],
              onKeyPress |-> [bound |-> "onAction", arg |-> button]],
             IF isHidden THEN [tabIndex |-> -1] ELSE << >>),
      button)

\* lines 147-157: customStyle and the handlers, then the button's own fields,
\* then tabIndex -1 when the card is hidden
postBackButtonProps(button, isHidden, t) ==
    Spread(
      Spread([customStyle |-> Arr(<< cardButtonBaseStyle,
                                     overridesButtonsPostbackButton(t),
                                     overridesCardCardButton(t) >>),
              onClick |-> Bind(button),
              onKeyPress |-> Bind(button)],
             button),
      IF isHidden THEN [tabIndex |-> -1] ELSE EmptyObject)

\* lines 134-160: the <li> of one button; buttons.map passes the 0-based index
renderButton(button, index, isHidden, t) ==
    IF "url" \in DOMAIN button
    THEN [key |-> index, component |-> "UrlButton",
          props |-> urlButtonProps(button, t)]
    ELSE [key |-> index, component |-> "PostBackButton",
          props |-> postBackButtonProps(button, isHidden, t)]

\* buttonList without the `buttons.length > 0` test
buttonList_NoLengthTest(buttons, isHidden, t) ==
    IF buttons.tag = "array"
    THEN << [role |-> "group",
             items |-> [i \in 1..Len(buttons.items) |->
                          renderButton(buttons.items[i], i - 1, isHidden, t)]] >>
    ELSE << >>

\* lines 182-184: zero or one <ButtonList role="group">
buttonList(buttons, isHidden, t) ==
    IF buttons.tag = "array" /\ Len(buttons.items) > 0
    THEN << [role |-> "group",
             items |-> [i \in 1..Len(buttons.items) |->
                          renderButton(buttons.items[i], i - 1, isHidden, t)]] >>
    ELSE << >>

\* cardOuter with `ref === undefined`: a null ref counts as supplied
cardOuter_StrictUndefined(ref, roleDescription) ==
    [ref |-> ref,
     role |-> IF ref = "undefined" THEN UndefinedStr ELSE Str("group"),
     ariaRoleDescription |->
        IF ref = "undefined" THEN UndefinedStr
        ELSE IF TruthyStr(roleDescription) THEN roleDescription
        ELSE Str("Slide")]

\* lines 162-172: the attributes of <CardOuter>; `ref == undefined` holds for
\* null and for undefined
cardOuter(ref, roleDescription) ==
    [ref |-> ref,
     role |-> IF ref \in {"undefined", "null"} THEN UndefinedStr ELSE Str("group"),
     ariaRoleDescription |->
        IF ref \in {"undefined", "null"} THEN UndefinedStr
        ELSE IF TruthyStr(roleDescription) THEN roleDescription
        ELSE Str("Slide")]

\* lines 125-131
cardImageCss(t) == << Css("cardImage"), overridesCardCardImage(t) >>

\* lines 108-188: the element tree of one render, given the renderers the two
\* hooks returned; calling an absent renderer throws
cardRender(props, ref, t, renderImage, renderHtml) ==
    LET isHidden == isHiddenOrDefault(props.isHidden) IN
    [threw |-> \/ (TruthyStr(props.imageUrl) /\ renderImage = NoRenderer)
               \/ renderHtml = NoRenderer,
     outer |-> cardOuter(ref, props.roleDescription),
     ariaHidden |-> isHidden,
     image |-> IF TruthyStr(props.imageUrl)
               THEN << [renderer |-> renderImage, src |-> props.imageUrl.str,
                        alt |-> props.imageAlternative, css |-> cardImageCss(t)] >>
               ELSE << >>,
     title |-> [renderer |-> renderHtml, text |-> props.title],
     subTitle |-> IF TruthyStr(props.subTitle)
                  THEN << [renderer |-> renderHtml, text |-> props.subTitle.str] >>
                  ELSE << >>,
     buttonList |-> buttonList(props.buttons, isHidden, t)]

\* the button data a host sends: a url button, a postback button, and a
\* postback button that carries a tabIndex of its own
ButtonData ==
    { [label |-> "Site", url |-> "https://tock"],
      [label |-> "Yes", payload |-> "yes"],
      [label |-> "No", payload |-> "no", tabIndex |-> 0] }

ButtonLists ==
    UNION {[1..n -> ButtonData] : n \in 0..MaxButtons}

\* the props a host passes to Card; `buttons` may be left out or be null
CardProps ==
    [title : {"Title"},
     subTitle : {UndefinedStr, Str("Sub")},
     imageUrl : {UndefinedStr, Str("https://img")},
     imageAlternative : {UndefinedStr},
     buttons : {[tag |-> "undefined", items |-> << >>],
                [tag |-> "null", items |-> << >>]}
               \cup {[tag |-> "array", items |-> b] : b \in ButtonLists},
     roleDescription : {UndefinedStr, Str(""), Str("Carte")},
     isHidden : {"undefined", "false", "true"}]

\* the ref forwardRef hands to cardRender
Refs == {"undefined", "null", "object"}

\* one render of a mounted Card: lines 132-133 resolve the `card` image renderer
\* and the `htmlPhrase` text renderer, then the element tree is built
CardRender ==
    /\ card.mounted /\ ~card.rendered
    /\ LET img == getRendererOrDefault("ImageRenderer", imageRenderers, "card",
                                       displayName)
           txt == getRendererOrDefault("TextRenderer", textRenderers, "htmlPhrase",
                                       img.displayName)
       IN /\ imageRenderers' = img.renderers
          /\ textRenderers' = txt.renderers
          /\ displayName' = txt.displayName
          /\ call' = [hook |-> "useTextRenderer", name |-> "htmlPhrase",
                      ret |-> txt.ret, threw |-> txt.threw]
          /\ card' = [card EXCEPT
                        !.rendered = TRUE,
                        !.element = cardRender(card.props, card.ref, theme,
                                               img.ret, txt.ret)]
    /\ UNCHANGED <<theme, anchor>>

----------------------------------------------------------------------------
(* Specification of the registries *)

AllSlots == ({"text"} \X TextSlots) \cup ({"image"} \X ImageSlots)

\* a theme without overrides
NoTheme == [overrides |-> NoOverrides]

\* no Card and no UrlButton is mounted
NoCard == [mounted |-> FALSE, rendered |-> FALSE]
NoAnchor == [mounted |-> FALSE, rendered |-> FALSE]

\* the host configures the registries once, from its renderer components
RegistryInit ==
    \E populated \in {S \in SUBSET AllSlots : Cardinality(S) <= MaxPopulated} :
      \E bound \in [populated -> Renderers] :
        /\ textRenderers = [s \in TextSlots |->
              IF <<"text", s>> \in populated THEN bound[<<"text", s>>] ELSE NoRenderer]
        /\ imageRenderers = [s \in ImageSlots |->
              IF <<"image", s>> \in populated THEN bound[<<"image", s>>] ELSE NoRenderer]

Init ==
    /\ RegistryInit
    /\ displayName = [r \in Renderers |-> hostDisplayName(r)]
    /\ call = NoCall
    /\ theme = NoTheme
    /\ card = NoCard
    /\ anchor = NoAnchor

ResolveText == \E name \in TextSlots : useTextRenderer(name)

ResolveImage == \E name \in ImageSlots : useImageRenderer(name)

Next == ResolveText \/ ResolveImage

Spec == Init /\ [][Next]_vars

----------------------------------------------------------------------------
(* Specification of the UrlButton component *)

\* a registry as the types require it: every mandatory slot populated
TypedTextRenderers ==
    [s \in TextSlots |-> IF s = "userContent" THEN NoRenderer ELSE 1]

TypedImageRenderers ==
    [s \in ImageSlots |-> IF s = "default" THEN 1 ELSE NoRenderer]

UrlInit ==
    /\ textRenderers = TypedTextRenderers
    /\ imageRenderers = TypedImageRenderers
    /\ displayName = [r \in Renderers |-> hostDisplayName(r)]
    /\ call = NoCall
    /\ theme \in Themes
    /\ card = NoCard
    /\ anchor \in {[mounted |-> TRUE, rendered |-> FALSE, props |-> p,
                     element |-> NoElement] : p \in UrlButtonProps}

UrlNext == UrlButtonRender

SpecUrl == UrlInit /\ [][UrlNext]_vars

----------------------------------------------------------------------------
(* Specification of the Card component *)

\* the themes a card is rendered under: no overrides object, an empty one,
\* and overrides for the buttons, the card, or both
CardThemes ==
    {t \in Themes :
        /\ t.overrides.quickReply = UndefinedStyle
        /\ t.overrides.buttons \in
              {NoButtonOverrides,
               ButtonOverrides(TRUE, Css("overrides.buttons.urlButton"),
                               Css("overrides.buttons.postbackButton"))}
        /\ t.overrides.card \in
              {NoCardOverrides,
               CardOverrides(TRUE, Css("overrides.card.cardButton"),
                             Css("overrides.card.cardImage"))}}

\* registries a card is rendered against: the typed one, one with the `card`
\* and `htmlPhrase` slots bound to renderers of their own, and one whose image
\* registry has no `default`
CardRegistries ==
    { <<TypedTextRenderers, TypedImageRenderers>>,
      <<[TypedTextRenderers EXCEPT !["htmlPhrase"] = 2],
        [TypedImageRenderers EXCEPT !["card"] = 3]>>,
      <<TypedTextRenderers, [s \in ImageSlots |-> NoRenderer]>> }

CardInit ==
    /\ \E reg \in CardRegistries :
          /\ textRenderers = reg[1]
          /\ imageRenderers = reg[2]
    /\ displayName = [r \in Renderers |-> hostDisplayName(r)]
    /\ call = NoCall
    /\ theme \in CardThemes
    /\ card \in {[mounted |-> TRUE, rendered |-> FALSE, props |-> p, ref |-> r,
                   element |-> NoElement] : p \in CardProps, r \in Refs}
    /\ anchor = NoAnchor

CardNext == CardRender

SpecCard == CardInit /\ [][CardNext]_vars

----------------------------------------------------------------------------
(* Properties of the renderer registries (checked under Spec) *)

\* the registry and the type string a hook passes to getRendererOrDefault
RegistryOf(hook) == IF hook = "useTextRenderer" THEN textRenderers ELSE imageRenderers
TypeOf(hook) == IF hook = "useTextRenderer" THEN "TextRenderer" ELSE "ImageRenderer"

\* a renderer carries a debug label: displayName is neither undefined nor ''
HasLabel(r) == displayName[r].defined /\ displayName[r].str # ""

\* C1: with `default` populated, a resolution returns the renderer bound to the
\* requested slot when that slot is populated and the renderer bound to
\* `default` when it is absent.
C1_SlotOrDefault ==
    (call.hook # "none" /\ RegistryOf(call.hook)["default"] # NoRenderer) =>
        /\ RegistryOf(call.hook)[call.name] # NoRenderer =>
              call.ret = RegistryOf(call.hook)[call.name]
        /\ RegistryOf(call.hook)[call.name] = NoRenderer =>
              call.ret = RegistryOf(call.hook)["default"]

\* registry {default: D, card: C}: resolving `standalone` yielded D
C1_Witness ==
    /\ call.hook = "useImageRenderer" /\ call.name = "standalone"
    /\ imageRenderers["card"] # NoRenderer
    /\ imageRenderers["default"] # NoRenderer
    /\ imageRenderers["card"] # imageRenderers["default"]
    /\ imageRenderers["standalone"] = NoRenderer
    /\ call.ret = imageRenderers["default"]

\* C2: with `default` populated, every resolution, after any earlier ones,
\* returns a renderer, never absence, and throws nothing; what it returns is the
\* slot's renderer or the `default` one.
C2_NeverAbsent ==
    (call.hook # "none" /\ RegistryOf(call.hook)["default"] # NoRenderer) =>
        /\ call.ret # NoRenderer
        /\ ~call.threw
        /\ call.ret \in {RegistryOf(call.hook)[call.name],
                         RegistryOf(call.hook)["default"]}

\* a text slot that is absent was resolved through the fallback
C2_Witness ==
    /\ call.hook = "useTextRenderer"
    /\ textRenderers[call.name] = NoRenderer
    /\ textRenderers["default"] # NoRenderer
    /\ call.ret = textRenderers["default"]
    /\ ~call.threw

\* C3: resolving the same slot twice in a row returns the same renderer, and a
\* renderer that carries a label keeps exactly that label through every later
\* resolution, of any slot of either registry.
C3_StableAndIdempotent ==
    [][ /\ (call.hook # "none" /\ call'.hook = call.hook /\ call'.name = call.name)
              => call'.ret = call.ret
        /\ \A r \in Renderers : HasLabel(r) => displayName'[r] = displayName[r]
      ]_vars

\* a renderer labelled through the text registry was then resolved through the
\* image registry and still carries the text label
C3_Witness ==
    /\ call.hook = "useImageRenderer"
    /\ call.ret # NoRenderer
    /\ hostDisplayName(call.ret) = UndefinedStr
    /\ \E n \in TextSlots :
          /\ textRenderers[n] = call.ret
          /\ displayName[call.ret] =
                Str("TextRenderer(" \o
                    (IF rendererName(call.ret).str # ""
                     THEN rendererName(call.ret).str ELSE n) \o ")")

\* the renderers one resolution reads, each with the slot it is read from:
\* the requested slot when populated, otherwise `default` when populated
ReadBy(hook, name) ==
    IF RegistryOf(hook)[name] # NoRenderer
    THEN {<<RegistryOf(hook)[name], name>>}
    ELSE IF RegistryOf(hook)["default"] # NoRenderer
    THEN {<<RegistryOf(hook)["default"], "default">>}
    ELSE {}

\* C7: a resolution labels each unlabelled renderer it reads
\* "<RegistryType>(<X>)", X being the renderer's function name when non-empty
\* and otherwise the slot it was read from; labelled renderers keep their label
\* and no other renderer is written.
C7_LabelOnFirstRead ==
    [][ \A r \in Renderers :
          IF ~HasLabel(r) /\ \E p \in ReadBy(call'.hook, call'.name) : p[1] = r
          THEN \E p \in ReadBy(call'.hook, call'.name) :
                 /\ p[1] = r
                 /\ displayName'[r].defined
                 /\ displayName'[r].str =
                      TypeOf(call'.hook) \o "(" \o
                        (IF rendererName(r).defined /\ rendererName(r).str # ""
                         THEN rendererName(r).str ELSE p[2]) \o ")"
          ELSE displayName'[r] = displayName[r]
      ]_vars

\* an anonymous renderer was read by the fallback of the image registry and is
\* labelled after the `default` slot
C7_Witness ==
    /\ call.hook = "useImageRenderer" /\ call.name # "default"
    /\ imageRenderers[call.name] = NoRenderer
    /\ call.ret # NoRenderer
    /\ displayName[call.ret] = Str("ImageRenderer(default)")

\* C9: with `default` absent, resolving an absent slot returns absence, throws
\* nothing and writes no label; resolving a populated slot returns its renderer.
C9_DefaultAbsent ==
    [][ RegistryOf(call'.hook)["default"] = NoRenderer =>
          IF RegistryOf(call'.hook)[call'.name] = NoRenderer
          THEN /\ call'.ret = NoRenderer
               /\ ~call'.threw
               /\ displayName' = displayName
          ELSE /\ call'.ret = RegistryOf(call'.hook)[call'.name]
               /\ ~call'.threw
      ]_vars

\* an absent text slot was resolved against a registry without `default`,
\* while another slot of that registry is populated
C9_Witness ==
    /\ call.hook = "useTextRenderer"
    /\ textRenderers["default"] = NoRenderer
    /\ textRenderers[call.name] = NoRenderer
    /\ \E n \in TextSlots : textRenderers[n] # NoRenderer
    /\ call.ret = NoRenderer
    /\ ~call.threw

\* C10: no resolution changes a slot of either registry, and the only field a
\* resolution writes is the displayName of a renderer that had no label.
C10_RegistryUnchanged ==
    [][ /\ textRenderers' = textRenderers
        /\ imageRenderers' = imageRenderers
        /\ \A r \in Renderers :
              displayName'[r] # displayName[r] => ~HasLabel(r)
      ]_vars

\* the fallback was taken on the image registry and labelled the default
\* renderer, and the requested slot is still absent
C10_Witness ==
    /\ call.hook = "useImageRenderer"
    /\ call.name # "default"
    /\ imageRenderers[call.name] = NoRenderer
    /\ call.ret = imageRenderers["default"]
    /\ call.ret # NoRenderer
    /\ hostDisplayName(call.ret) = UndefinedStr
    /\ displayName[call.ret].defined

----------------------------------------------------------------------------
(* Properties of the Card component (checked under SpecCard) *)

\* the card was rendered and the render did not throw
CardDone == card.mounted /\ card.rendered /\ ~card.element.threw

\* C4: the button list (role `group`) is rendered if and only if `buttons` is
\* an array with at least one element; when rendered it holds exactly one item
\* per button, in the order of the array.
C4_ButtonListIffButtons ==
    CardDone =>
      LET buttons == card.props.buttons
          list == card.element.buttonList
      IN /\ Len(list) <= 1
         /\ Len(list) = 1 <=> (buttons.tag = "array" /\ Len(buttons.items) >= 1)
         /\ Len(list) = 1 =>
              /\ list[1].role = "group"
              /\ Len(list[1].items) = Len(buttons.items)
              /\ \A i \in 1..Len(buttons.items) :
                    /\ list[1].items[i].key = i - 1
                    /\ list[1].items[i].props["label"] = buttons.items[i]["label"]
                    /\ list[1].items[i].component = "UrlButton"
                          <=> "url" \in DOMAIN buttons.items[i]

\* a card with two different buttons rendered both, in order
C4_Witness ==
    /\ CardDone
    /\ Len(card.props.buttons.items) = 2
    /\ card.props.buttons.items[1] # card.props.buttons.items[2]
    /\ Len(card.element.buttonList) = 1
    /\ card.element.buttonList[1].items[2].props["label"]
          = card.props.buttons.items[2]["label"]

\* C5: a postback button (no `url` field) of a hidden card gets tabIndex -1,
\* whatever tabIndex its data carries; when isHidden is false or omitted the
\* card adds no tabIndex: the prop is exactly what the button data holds.
C5_HiddenPostbackTabIndex ==
    CardDone =>
      \A i \in 1..Len(card.props.buttons.items) :
        LET button == card.props.buttons.items[i]
            item == card.element.buttonList[1].items[i]
        IN "url" \notin DOMAIN button =>
             /\ item.component = "PostBackButton"
             /\ IF card.props.isHidden = "true"
                THEN /\ "tabIndex" \in DOMAIN item.props
                     /\ item.props["tabIndex"] = -1
                ELSE /\ "tabIndex" \in DOMAIN item.props
                          <=> "tabIndex" \in DOMAIN button
                     /\ "tabIndex" \in DOMAIN button
                          => item.props["tabIndex"] = button["tabIndex"]

\* a hidden card rendered a postback button whose data carries tabIndex 0
C5_Witness ==
    /\ CardDone
    /\ card.props.isHidden = "true"
    /\ Len(card.props.buttons.items) >= 1
    /\ "url" \notin DOMAIN card.props.buttons.items[1]
    /\ "tabIndex" \in DOMAIN card.props.buttons.items[1]
    /\ card.props.buttons.items[1]["tabIndex"] = 0
    /\ card.element.buttonList[1].items[1].props["tabIndex"] = -1

\* C8: the outer wrapper carries role `group` and aria-roledescription if and
\* only if a ref is supplied (neither null nor undefined); aria-roledescription
\* is then the roleDescription prop when non-empty and `Slide` otherwise.
C8_OuterRoleIffRef ==
    CardDone =>
      LET outer == card.element.outer
          supplied == card.ref \notin {"undefined", "null"}
      IN /\ outer.role.defined <=> supplied
         /\ outer.ariaRoleDescription.defined <=> supplied
         /\ supplied =>
              /\ outer.role.str = "group"
              /\ outer.ariaRoleDescription.str =
                   (IF card.props.roleDescription.defined
                       /\ card.props.roleDescription.str # ""
                    THEN card.props.roleDescription.str ELSE "Slide")

\* a card with a ref and an empty roleDescription is described as a Slide
C8_Witness ==
    /\ CardDone
    /\ card.ref = "object"
    /\ card.props.roleDescription = Str("")
    /\ card.element.outer.role = Str("group")
    /\ card.element.outer.ariaRoleDescription = Str("Slide")

----------------------------------------------------------------------------
(* Properties of the UrlButton component (checked under SpecUrl) *)

\* a custom style is supplied: the customStyle prop is truthy
CustomStyleSupplied ==
    /\ anchor.props.customStyle.tag \notin {"undefined", "null", "false"}
    /\ ~(anchor.props.customStyle.tag = "string" /\ anchor.props.customStyle.name = "")

\* the url-button override of the theme is set (present and truthy)
UrlButtonOverrideSet ==
    /\ theme.overrides.present
    /\ theme.overrides.buttons.present
    /\ theme.overrides.buttons.urlButton.tag = "css"

\* C6: the style list is [base button style, default anchor style, last]; last
\* is the custom style when one is supplied, otherwise [quick-reply style,
\* theme override], the override being the url-button one when set and the
\* quick-reply one otherwise.
C6_StyleOrder ==
    (anchor.mounted /\ anchor.rendered) =>
      LET css == anchor.element.css IN
      /\ Len(css) = 3
      /\ css[1] = Css("baseButtonStyle")
      /\ css[2] = Css("defaultAnchorStyle")
      /\ CustomStyleSupplied => css[3] = anchor.props.customStyle
      /\ ~CustomStyleSupplied =>
            /\ css[3].tag = "array"
            /\ Len(css[3].items) = 2
            /\ css[3].items[1] = Css("quickReplyStyle")
            /\ css[3].items[2] =
                 (IF UrlButtonOverrideSet
                  THEN theme.overrides.buttons.urlButton
                  ELSE IF theme.overrides.present
                  THEN theme.overrides.quickReply
                  ELSE UndefinedStyle)

\* a custom style was supplied under a theme that overrides url buttons, and
\* the custom style is the final entry
C6_Witness ==
    /\ anchor.mounted /\ anchor.rendered
    /\ anchor.props.customStyle = Css("custom")
    /\ UrlButtonOverrideSet
    /\ anchor.element.css[3] = Css("custom")

====
